---- MODULE Spec2Model ----
(***************************************************************************)
(* Model of the employment-data dashboard core: fuse_employment_data,      *)
(* get_summary_statistics, filter_data (src/data_fusion.py),               *)
(* generate_ai_insights and predict_trends (src/ai_insights.py).           *)
(*                                                                         *)
(* A DataFrame is a sequence of records (its rows, in row order).  A       *)
(* Series is a sequence of [key, val] records (index label, value).  A     *)
(* cell that pandas holds as NaN/None is the empty sequence << >>, a       *)
(* present cell v is << v >>.                                              *)
(***************************************************************************)
EXTENDS Integers, Sequences, FiniteSets, TLC

VARIABLES layoffs_df, hiring_df, fused_df, stats, selection, filtered_layoffs,
          filtered_hiring, filtered_fused, selection2, refiltered_df, insights,
          predictions, tie, pc

\* the tables of load_data
sourceVars == << layoffs_df, hiring_df >>

\* the sidebar selection and the three filtered tables
filterVars == << selection, filtered_layoffs, filtered_hiring, filtered_fused >>

\* a second selection and the filtered table filtered again
refilterVars == << selection2, refiltered_df >>

vars == << sourceVars, fused_df, stats, filterVars, refilterVars, insights,
          predictions, tie, pc >>

(***************************************************************************)
(* Bounds of the model.                                                    *)
(***************************************************************************)
\* rows of both source tables together, fusion specification
MaxRows == 3
\* rows of both source tables together, insight specification
MaxInsightRows == 4
\* rows of the filtered table, filter specification
MaxFilterRows == 2
\* extra companies beyond the ranking size, summary specification
ExtraCompanies == 1
\* companies whose layoff count varies, summary specification
VariedLayoffs == 6
\* companies whose hiring count varies, summary specification
VariedHires == 3
\* rows of both source tables together, prediction specification
MaxTrendRows == 3
\* rows of both source tables together, commutation specification
MaxCommuteRows == 3

(***************************************************************************)
(* Python's ordering of the strings the model uses (str.__lt__).           *)
(***************************************************************************)
CompanyNames ==
    << "A", "B", "C", "D", "E", "F", "G", "H", "I", "J", "K", "L", "M" >>

StrRank(s) ==
    IF s = "X" THEN 101
    ELSE IF s = "Y" THEN 102
    ELSE CHOOSE i \in 1..Len(CompanyNames) : CompanyNames[i] = s

NaN == << >>

IsNaN(cell) == cell = << >>

\* Series.fillna / scalar fillna on one cell
FillNa(cell, other) == IF IsNaN(cell) THEN other ELSE cell

RECURSIVE SumSeq(_)
SumSeq(s) == IF s = << >> THEN 0 ELSE Head(s) + SumSeq(Tail(s))

RECURSIVE FlattenSeq(_)
FlattenSeq(ss) == IF ss = << >> THEN << >> ELSE Head(ss) \o FlattenSeq(Tail(ss))

(***************************************************************************)
(* Rows produced by generate_sample_data.                                  *)
(***************************************************************************)
LayoffRow(e) ==
    [company |-> e.company, year |-> e.year, month |-> e.month,
     layoffs |-> e.count, industry |-> << e.industry >>,
     location |-> << e.location >>]

HiringRow(e) ==
    [company |-> e.company, year |-> e.year, month |-> e.month,
     hires |-> e.count, industry |-> << e.industry >>,
     location |-> << e.location >>]

(***************************************************************************)
(* Columns.  industry and location hold cells (a string or None); the      *)
(* other columns hold values.                                              *)
(***************************************************************************)
Cell(r, col) == IF col \in {"industry", "location"} THEN r[col] ELSE << r[col] >>

\* the order of two values of a column
ValueLess(col, v1, v2) ==
    IF col \in {"company", "industry"}
    THEN StrRank(v1) < StrRank(v2)
    ELSE v1 < v2

(***************************************************************************)
(* df.groupby(by)[val].sum(): a Series with one entry per distinct key,    *)
(* in key order (sort=True); rows with a null key are dropped.             *)
(***************************************************************************)
GroupKey(r, by) == [ i \in 1..Len(by) |-> Cell(r, by[i])[1] ]

HasKey(r, by) == \A i \in 1..Len(by) : ~IsNaN(Cell(r, by[i]))

TupleLess(by, k1, k2) ==
    \E i \in 1..Len(by) :
        /\ \A j \in 1..(i - 1) : k1[j] = k2[j]
        /\ ValueLess(by[i], k1[i], k2[i])

RECURSIVE SortedTuples(_, _)
SortedTuples(by, ks) ==
    IF ks = {} THEN << >>
    ELSE LET m == CHOOSE k \in ks : \A o \in ks \ {k} : TupleLess(by, k, o)
         IN  << m >> \o SortedTuples(by, ks \ {m})

GroupBySum(df, by, val) ==
    LET Keyed(r) == HasKey(r, by)
        rows == SelectSeq(df, Keyed)
        ks == SortedTuples(by, { GroupKey(rows[i], by) : i \in 1..Len(rows) })
    IN  [ i \in 1..Len(ks) |->
            LET InGroup(r) == GroupKey(r, by) = ks[i]
                g == SelectSeq(rows, InGroup)
            IN  [key |-> ks[i], val |-> SumSeq([ j \in 1..Len(g) |-> g[j][val] ])] ]

(***************************************************************************)
(* groupby(['company', 'year', 'month'])                                   *)
(***************************************************************************)
FuseKey == << "company", "year", "month" >>

KeyOf(r) == GroupKey(r, FuseKey)

\* the group keys in key order (groupby sort=True; the merge keeps key order)
SortedKeys(ks) == SortedTuples(FuseKey, ks)

KeysOf(df) == { KeyOf(df[i]) : i \in 1..Len(df) }

GroupRows(df, k) ==
    LET InGroup(r) == KeyOf(r) = k IN SelectSeq(df, InGroup)

\* agg 'first': the first non-null cell of the column in the group's row order
AggFirst(group, col) ==
    LET present == { i \in 1..Len(group) : ~IsNaN(group[i][col]) }
    IN  IF present = {} THEN NaN
        ELSE group[CHOOSE i \in present : \A j \in present : i <= j][col]

\* 'layoffs': 'first' in place of 'layoffs': 'sum'
LayoffsMonthlyFirst(df) ==
    LET ks == SortedKeys(KeysOf(df))
    IN  [ i \in 1..Len(ks) |->
            LET g == GroupRows(df, ks[i])
            IN  [company |-> ks[i][1], year |-> ks[i][2], month |-> ks[i][3],
                 layoffs |-> g[1].layoffs,
                 industry |-> AggFirst(g, "industry"),
                 location |-> AggFirst(g, "location")] ]

\* layoffs_df.groupby([...]).agg({'layoffs': 'sum', 'industry': 'first',
\* 'location': 'first'}).reset_index()
LayoffsMonthly(df) ==
    LET ks == SortedKeys(KeysOf(df))
    IN  [ i \in 1..Len(ks) |->
            LET g == GroupRows(df, ks[i])
            IN  [company |-> ks[i][1], year |-> ks[i][2], month |-> ks[i][3],
                 layoffs |-> SumSeq([ j \in 1..Len(g) |-> g[j].layoffs ]),
                 industry |-> AggFirst(g, "industry"),
                 location |-> AggFirst(g, "location")] ]

HiringMonthly(df) ==
    LET ks == SortedKeys(KeysOf(df))
    IN  [ i \in 1..Len(ks) |->
            LET g == GroupRows(df, ks[i])
            IN  [company |-> ks[i][1], year |-> ks[i][2], month |-> ks[i][3],
                 hires |-> SumSeq([ j \in 1..Len(g) |-> g[j].hires ]),
                 industry |-> AggFirst(g, "industry"),
                 location |-> AggFirst(g, "location")] ]

(***************************************************************************)
(* pd.merge(left, right, on=[company, year, month], how='outer',           *)
(* suffixes=('_layoffs', '_hiring')): for every key of either side, one    *)
(* row per pair of matching left and right rows; a side without the key    *)
(* contributes NaN cells.  Rows come out in key order.                     *)
(***************************************************************************)
MergedRow(k, l, r) ==
    [company |-> k[1], year |-> k[2], month |-> k[3],
     layoffs |-> IF l = << >> THEN NaN ELSE << l[1].layoffs >>,
     hires |-> IF r = << >> THEN NaN ELSE << r[1].hires >>,
     industry_layoffs |-> IF l = << >> THEN NaN ELSE l[1].industry,
     industry_hiring |-> IF r = << >> THEN NaN ELSE r[1].industry,
     location_layoffs |-> IF l = << >> THEN NaN ELSE l[1].location,
     location_hiring |-> IF r = << >> THEN NaN ELSE r[1].location]

\* how='inner' in place of how='outer'
MergeKeysInner(left, right) == KeysOf(left) \cap KeysOf(right)

MergeKeys(left, right) == KeysOf(left) \cup KeysOf(right)

MergeOuter(left, right) ==
    LET ks == SortedKeys(MergeKeys(left, right))
        RowsFor(k) ==
            LET ls == GroupRows(left, k)
                rs == GroupRows(right, k)
            IN  IF rs = << >>
                THEN [ a \in 1..Len(ls) |-> MergedRow(k, << ls[a] >>, << >>) ]
                ELSE IF ls = << >>
                THEN [ b \in 1..Len(rs) |-> MergedRow(k, << >>, << rs[b] >>) ]
                ELSE FlattenSeq([ a \in 1..Len(ls) |->
                        [ b \in 1..Len(rs) |->
                            MergedRow(k, << ls[a] >>, << rs[b] >>) ] ])
    IN  FlattenSeq([ i \in 1..Len(ks) |-> RowsFor(ks[i]) ])

\* fillna(1) in place of fillna(0)
FilledCountOne(cell) == FillNa(cell, << 1 >>)[1]

\* fused_df['layoffs'].fillna(0), fused_df['hires'].fillna(0)
FilledCount(cell) == FillNa(cell, << 0 >>)[1]

\* the hiring side preferred over the reduction side
CoalesceHiringFirst(preferred, fallback) == FillNa(fallback, preferred)

\* fused_df['industry_layoffs'].fillna(fused_df['industry_hiring'])
Coalesce(preferred, fallback) == FillNa(preferred, fallback)

\* the denominator without its shift by one
EmploymentRatioNoShift(hires, layoffs) == [num |-> hires, den |-> layoffs]

\* hires / (layoffs + 1), kept as the exact quotient num / den
EmploymentRatio(hires, layoffs) == [num |-> hires, den |-> layoffs + 1]

NetChange(hires, layoffs) == hires - layoffs

FusedRow(m) ==
    LET l == FilledCount(m.layoffs)
        h == FilledCount(m.hires)
    IN  [company |-> m.company, year |-> m.year, month |-> m.month,
         layoffs |-> l, hires |-> h,
         industry |-> Coalesce(m.industry_layoffs, m.industry_hiring),
         location |-> Coalesce(m.location_layoffs, m.location_hiring),
         net_change |-> NetChange(h, l),
         employment_ratio |-> EmploymentRatio(h, l),
         date |-> << m.year, m.month, 1 >>]

fuse_employment_data(ldf, hdf) ==
    LET merged == MergeOuter(LayoffsMonthly(ldf), HiringMonthly(hdf))
    IN  [ i \in 1..Len(merged) |-> FusedRow(merged[i]) ]

(***************************************************************************)
(* Input rows of the fusion specification.                                 *)
(***************************************************************************)
FuseEvents ==
    { [company |-> c, year |-> ym[1], month |-> ym[2], count |-> n,
       industry |-> a[1], location |-> a[2]] :
        c \in {"A", "B"}, ym \in { <<2021, 12>>, <<2022, 1>> },
        n \in {1, 2}, a \in { <<"X", "P">>, <<"Y", "Q">> } }

\* filter_data's defaults: companies=None, years=None, months=None, industries=None
NoSelection ==
    [companies |-> << >>, years |-> << >>, months |-> << >>, industries |-> << >>]

NoStats == [computed |-> FALSE]

NoInsights == [raised |-> FALSE, error |-> "", insights |-> << >>]

NoPredictions == [raised |-> FALSE, error |-> "", insights |-> << >>]

Init ==
    /\ layoffs_df = << >>
    /\ hiring_df = << >>
    /\ fused_df = << >>
    /\ stats = NoStats
    /\ selection = NoSelection
    /\ filtered_layoffs = << >>
    /\ filtered_hiring = << >>
    /\ filtered_fused = << >>
    /\ selection2 = NoSelection
    /\ refiltered_df = << >>
    /\ insights = NoInsights
    /\ predictions = NoPredictions
    /\ tie = "stable"
    /\ pc = "load"

\* generate_sample_data appends one layoff event
AddLayoff(events, max) ==
    /\ pc = "load"
    /\ Len(layoffs_df) + Len(hiring_df) < max
    /\ \E e \in events : layoffs_df' = Append(layoffs_df, LayoffRow(e))
    /\ UNCHANGED << hiring_df, fused_df, stats, filterVars, refilterVars,
                    insights, predictions, tie, pc >>

\* generate_sample_data appends one hiring event
AddHiring(events, max) ==
    /\ pc = "load"
    /\ Len(layoffs_df) + Len(hiring_df) < max
    /\ \E e \in events : hiring_df' = Append(hiring_df, HiringRow(e))
    /\ UNCHANGED << layoffs_df, fused_df, stats, filterVars, refilterVars,
                    insights, predictions, tie, pc >>

\* main: fused_df = fuse_employment_data(layoffs_df, hiring_df)
Fuse ==
    /\ pc = "load"
    /\ fused_df' = fuse_employment_data(layoffs_df, hiring_df)
    /\ pc' = "fused"
    /\ UNCHANGED << sourceVars, stats, filterVars, refilterVars, insights,
                    predictions, tie >>

Next ==
    \/ AddLayoff(FuseEvents, MaxRows)
    \/ AddHiring(FuseEvents, MaxRows)
    \/ Fuse

Spec == Init /\ [][Next]_vars

(***************************************************************************)
(* filter_data.  An argument is None (<< >>) or a list of values           *)
(* (<< set of its values >>).                                              *)
(***************************************************************************)
None == << >>

\* `if companies is not None:` in place of `if companies:`
TruthyNotNone(arg) == arg # None

\* `if companies:` -- None and the empty list are both false
Truthy(arg) == arg # None /\ arg[1] # {}

\* the mask inverted: rows whose value is not listed
IsinInverted(cell, arg) == ~(cell # NaN /\ cell[1] \in arg[1])

\* Series.isin(values) on one cell; a NaN cell is in no list
Isin(cell, arg) == cell # NaN /\ cell[1] \in arg[1]

\* filtered_df[filtered_df[col].isin(values)]
Restrict(df, col, arg) ==
    LET Keep(r) == Isin(Cell(r, col), arg)
    IN  SelectSeq(df, Keep)

filter_data(df, companies, years, months, industries) ==
    LET f0 == df
        f1 == IF Truthy(companies) THEN Restrict(f0, "company", companies) ELSE f0
        f2 == IF Truthy(years) THEN Restrict(f1, "year", years) ELSE f1
        f3 == IF Truthy(months) THEN Restrict(f2, "month", months) ELSE f2
        f4 == IF Truthy(industries) THEN Restrict(f3, "industry", industries) ELSE f3
    IN  f4

(***************************************************************************)
(* Inputs of the filter specification: the rows of the table and the       *)
(* sidebar selections (app.py:80-117).                                     *)
(***************************************************************************)
FilterEvents ==
    { [company |-> "A", year |-> 2021, month |-> 1, count |-> 1,
       industry |-> "X", location |-> "P"],
      [company |-> "B", year |-> 2022, month |-> 1, count |-> 1,
       industry |-> "X", location |-> "P"],
      [company |-> "A", year |-> 2022, month |-> 2, count |-> 1,
       industry |-> "Y", location |-> "P"],
      [company |-> "B", year |-> 2021, month |-> 2, count |-> 1,
       industry |-> "Y", location |-> "P"] }

Selections ==
    [companies : { None, << {} >>, << {"A"} >>, << {"A", "B"} >> },
     years : { None, << {} >>, << {2022} >>, << {2021, 2022} >> },
     months : { None, << {} >>, << {1} >> },
     industries : { None, << {} >>, << {"X"} >> }]

Dimensions == { "companies", "years", "months", "industries" }

\* the values an argument lists
Listed(arg) == IF arg = None THEN {} ELSE arg[1]

\* the fused table passed on without filter_data
FilterFusedUnfiltered(selections) ==
    /\ pc = "fused"
    /\ \E sel \in selections :
          /\ selection' = sel
          /\ filtered_layoffs' = filter_data(layoffs_df, sel.companies, sel.years,
                                             sel.months, sel.industries)
          /\ filtered_hiring' = filter_data(hiring_df, sel.companies, sel.years,
                                            sel.months, sel.industries)
          /\ filtered_fused' = fused_df
    /\ pc' = "filtered"
    /\ UNCHANGED << sourceVars, fused_df, stats, refilterVars, insights,
                    predictions, tie >>

\* main: filtered_layoffs, filtered_hiring and filtered_fused, each
\* filter_data of its table under the sidebar's selection
Filter(selections) ==
    /\ pc = "fused"
    /\ \E sel \in selections :
          /\ selection' = sel
          /\ filtered_layoffs' = filter_data(layoffs_df, sel.companies, sel.years,
                                             sel.months, sel.industries)
          /\ filtered_hiring' = filter_data(hiring_df, sel.companies, sel.years,
                                            sel.months, sel.industries)
          /\ filtered_fused' = filter_data(fused_df, sel.companies, sel.years,
                                           sel.months, sel.industries)
    /\ pc' = "filtered"
    /\ UNCHANGED << sourceVars, fused_df, stats, refilterVars, insights,
                    predictions, tie >>

\* filter_data applied to filtered_layoffs under a second selection that
\* lists, on every dimension, at least the values of the first one
Refilter ==
    /\ pc = "filtered"
    /\ \E sel \in Selections :
          /\ \A d \in Dimensions : Listed(selection[d]) \subseteq Listed(sel[d])
          /\ selection2' = sel
          /\ refiltered_df' = filter_data(filtered_layoffs, sel.companies, sel.years,
                                          sel.months, sel.industries)
    /\ pc' = "refiltered"
    /\ UNCHANGED << sourceVars, fused_df, stats, filterVars, insights,
                    predictions, tie >>

NextFilter ==
    \/ AddLayoff(FilterEvents, MaxFilterRows)
    \/ Fuse
    \/ Filter(Selections)
    \/ Refilter

SpecFilter == Init /\ [][NextFilter]_vars

(***************************************************************************)
(* get_summary_statistics.                                                 *)
(***************************************************************************)
TopN == 10

\* the orders a sort may leave equal values in: that of the index (a stable
\* sort) or its reverse; the sort of the build decides, and tie records it
TieOrders == {"stable", "reversed"}

\* the position of the entry sort_values puts first among those of `left`:
\* the largest value (the smallest when ascending); among equal values the
\* first in index order under a stable sort, the last otherwise
FirstOf(series, left, ascending, tieOrder) ==
    CHOOSE i \in left :
        \A j \in left \ {i} :
            \/ IF ascending THEN series[i].val < series[j].val
                            ELSE series[i].val > series[j].val
            \/ /\ series[i].val = series[j].val
               /\ IF tieOrder = "stable" THEN i < j ELSE i > j

RECURSIVE SortPositions(_, _, _, _)
SortPositions(series, left, ascending, tieOrder) ==
    IF left = {} THEN << >>
    ELSE LET i == FirstOf(series, left, ascending, tieOrder)
         IN  << series[i] >> \o SortPositions(series, left \ {i}, ascending, tieOrder)

\* sort_values() with its default ascending=True
SortValuesAscending(series, tieOrder) ==
    SortPositions(series, 1..Len(series), TRUE, tieOrder)

\* Series.sort_values(ascending=False); the order of equal values is that of
\* the sort the build uses
SortValuesDescending(series, tieOrder) ==
    SortPositions(series, 1..Len(series), FALSE, tieOrder)

\* Series.head(n)
HeadN(series, n) == SubSeq(series, 1, IF Len(series) < n THEN Len(series) ELSE n)

ColumnSum(df, val) == SumSeq([ i \in 1..Len(df) |-> df[i][val] ])

get_summary_statistics(ldf, hdf, fdf, tieOrder) ==
    LET total_layoffs == ColumnSum(ldf, "layoffs")
        total_hires == ColumnSum(hdf, "hires")
        company_layoffs ==
            SortValuesDescending(GroupBySum(ldf, << "company" >>, "layoffs"), tieOrder)
        company_hires ==
            SortValuesDescending(GroupBySum(hdf, << "company" >>, "hires"), tieOrder)
    IN  [total_layoffs |-> total_layoffs,
         total_hires |-> total_hires,
         net_employment_change |-> total_hires - total_layoffs,
         top_layoff_companies |-> HeadN(company_layoffs, TopN),
         top_hiring_companies |-> HeadN(company_hires, TopN),
         monthly_layoffs |-> GroupBySum(ldf, << "year", "month" >>, "layoffs"),
         monthly_hires |-> GroupBySum(hdf, << "year", "month" >>, "hires"),
         industry_impact |->
            SortValuesDescending(GroupBySum(ldf, << "industry" >>, "layoffs"), tieOrder)]

(***************************************************************************)
(* Inputs of the summary specification: more companies than the rankings   *)
(* hold, one event per company in reverse name order, and a second event   *)
(* of company A.                                                           *)
(***************************************************************************)
NumCompanies == TopN + ExtraCompanies

RankedEvent(i, n) ==
    [company |-> CompanyNames[NumCompanies + 1 - i], year |-> 2022,
     month |-> 1 + (i % 2), count |-> n,
     industry |-> IF i % 3 = 0 THEN "X" ELSE "Y", location |-> "P"]

RankedTables(varied) ==
    { [ i \in 1..NumCompanies |-> RankedEvent(i, IF i \in varied THEN c[i] ELSE 1) ] :
        c \in [ varied -> {1, 2} ] }

SecondEvents ==
    { << >>, << [company |-> "A", year |-> 2021, month |-> 12, count |-> 2,
                 industry |-> "X", location |-> "Q"] >> }

InitStats ==
    /\ \E t \in RankedTables(1..VariedLayoffs), x \in SecondEvents :
          layoffs_df = [ i \in 1..Len(t \o x) |-> LayoffRow((t \o x)[i]) ]
    /\ \E t \in RankedTables(1..VariedHires) :
          hiring_df = [ i \in 1..Len(t) |-> HiringRow(t[i]) ]
    /\ fused_df = << >>
    /\ stats = NoStats
    /\ selection = NoSelection
    /\ filtered_layoffs = << >>
    /\ filtered_hiring = << >>
    /\ filtered_fused = << >>
    /\ selection2 = NoSelection
    /\ refiltered_df = << >>
    /\ insights = NoInsights
    /\ predictions = NoPredictions
    /\ tie = "stable"
    /\ pc = "load"

\* main: stats = get_summary_statistics(layoffs_df, hiring_df, fused_df)
Stats ==
    /\ pc = "fused"
    /\ \E t \in TieOrders :
          /\ tie' = t
          /\ stats' = get_summary_statistics(layoffs_df, hiring_df, fused_df, t)
    /\ pc' = "stats"
    /\ UNCHANGED << sourceVars, fused_df, filterVars, refilterVars, insights,
                    predictions >>

NextStats ==
    \/ Fuse
    \/ Stats

SpecStats == InitStats /\ [][NextStats]_vars

(***************************************************************************)
(* generate_ai_insights.  An insight string is the record of the rule that *)
(* wrote it and of the values formatted into it.  The result is the list   *)
(* returned, or the exception that left the function.                      *)
(***************************************************************************)
MonthNames ==
    << "January", "February", "March", "April", "May", "June", "July",
       "August", "September", "October", "November", "December" >>

Insight(rule, year, name, amount) ==
    [rule |-> rule, year |-> year, name |-> name, amount |-> amount]

Returns(list) == [raised |-> FALSE, error |-> "", insights |-> list]

Raises(error) == [raised |-> TRUE, error |-> error, insights |-> << >>]

Labels(series) == { series[i].key[1] : i \in 1..Len(series) }

\* series[label]
At(series, label) ==
    series[CHOOSE i \in 1..Len(series) : series[i].key[1] = label].val

MaxOf(values) == CHOOSE v \in values : \A w \in values : w <= v

\* Series.max()
SeriesMax(series) == MaxOf({ series[i].val : i \in 1..Len(series) })

\* Series.idxmax(): the label of the first entry holding the maximum
IdxMax(series) ==
    LET first == CHOOSE i \in 1..Len(series) :
                    /\ series[i].val = SeriesMax(series)
                    /\ \A j \in 1..(i - 1) : series[j].val # SeriesMax(series)
    IN  series[first].key[1]

\* Series.std(): the sample standard deviation (ddof=1), NaN for fewer than
\* two entries.  The cell holds its square, the exact quotient
\* (n * sum(x^2) - sum(x)^2) / (n * (n - 1)); two standard deviations compare
\* as their squares do.
Std(series) ==
    LET n == Len(series)
        sum == SumSeq([ i \in 1..n |-> series[i].val ])
        squares == SumSeq([ i \in 1..n |-> series[i].val * series[i].val ])
    IN  IF n < 2 THEN NaN
        ELSE << [num |-> n * squares - sum * sum, den |-> n * (n - 1)] >>

\* a > b on floats: False when either side is NaN
Greater(a, b) ==
    /\ ~IsNaN(a)
    /\ ~IsNaN(b)
    /\ a[1].num * b[1].den > b[1].num * a[1].den

\* `if recent_net > 0:`
IsPositive(net) == net > 0

\* lines 43-50, the recovery indicator
RecoveryInsights(yearly_layoffs, yearly_hires) ==
    LET recent_year == MaxOf(Labels(yearly_hires))
        recent_net == At(yearly_hires, recent_year) - At(yearly_layoffs, recent_year)
    IN  IF recent_year \in Labels(yearly_hires) /\ recent_year \in Labels(yearly_layoffs)
        THEN IF IsPositive(recent_net)
             THEN << Insight("Recovery Signal", recent_year, "", recent_net) >>
             ELSE << Insight("Continued Challenges", recent_year, "", recent_net) >>
        ELSE << >>

\* lines 52-58, the market volatility
VolatilityInsights(yearly_layoffs, yearly_hires) ==
    LET layoff_volatility == Std(yearly_layoffs)
        hiring_volatility == Std(yearly_hires)
    IN  IF Greater(layoff_volatility, hiring_volatility)
        THEN << Insight("Market Volatility", 0, "", 0) >>
        ELSE << Insight("Market Stability", 0, "", 0) >>

generate_ai_insights(ldf, hdf, fdf, tieOrder) ==
    LET yearly_layoffs == GroupBySum(ldf, << "year" >>, "layoffs")
        yearly_hires == GroupBySum(hdf, << "year" >>, "hires")
        industry_layoffs ==
            SortValuesDescending(GroupBySum(ldf, << "industry" >>, "layoffs"), tieOrder)
        company_net_change ==
            SortValuesDescending(GroupBySum(fdf, << "company" >>, "net_change"), tieOrder)
        monthly_layoffs == GroupBySum(ldf, << "month" >>, "layoffs")
    IN  IF yearly_layoffs = << >> THEN Raises("ValueError")
        ELSE IF yearly_hires = << >> THEN Raises("ValueError")
        ELSE IF industry_layoffs = << >> THEN Raises("IndexError")
        ELSE IF company_net_change = << >> THEN Raises("IndexError")
        ELSE IF IdxMax(monthly_layoffs) \notin 1..Len(MonthNames) THEN Raises("KeyError")
        ELSE Returns(
            << Insight("Peak Layoffs", IdxMax(yearly_layoffs), "",
                       SeriesMax(yearly_layoffs)),
               Insight("Peak Hiring", IdxMax(yearly_hires), "", SeriesMax(yearly_hires)),
               Insight("Most Affected Industry", 0, industry_layoffs[1].key[1],
                       industry_layoffs[1].val),
               Insight("Top Net Hirer", 0, company_net_change[1].key[1],
                       company_net_change[1].val),
               Insight("Seasonal Pattern", 0, MonthNames[IdxMax(monthly_layoffs)], 0) >>
            \o RecoveryInsights(yearly_layoffs, yearly_hires)
            \o VolatilityInsights(yearly_layoffs, yearly_hires))

(***************************************************************************)
(* predict_trends.  A prediction is an Insight record: the rule that wrote *)
(* it and, in name, the direction or the industry formatted into it.       *)
(***************************************************************************)
\* Series.pct_change() at the last entry: (last - previous) / previous, kept
\* as the exact quotient num / den; previous = 0 gives inf for a positive
\* last value and NaN for 0 / 0.  The totals are never negative.
LatestGrowth(series) ==
    LET n == Len(series)
        last == series[n].val
        previous == series[n - 1].val
    IN  IF previous = 0
        THEN [kind |-> IF last = 0 THEN "nan" ELSE "inf", num |-> 0, den |-> 1]
        ELSE [kind |-> "finite", num |-> last - previous, den |-> previous]

\* growth < -0.1; False for NaN and for inf
BelowBand(growth) ==
    /\ growth.kind = "finite"
    /\ 10 * growth.num < 0 - growth.den

\* growth > 0.1; False for NaN, True for inf
AboveBand(growth) ==
    \/ growth.kind = "inf"
    \/ growth.kind = "finite" /\ 10 * growth.num > growth.den

\* lines 74-92, the layoff trend and the hiring trend
TrendPredictions(yearly_layoffs, yearly_hires) ==
    IF Len(yearly_layoffs) >= 2
    THEN LET latest_layoff_growth == LatestGrowth(yearly_layoffs)
             latest_hiring_growth == LatestGrowth(yearly_hires)
         IN  ( IF BelowBand(latest_layoff_growth)
               THEN << Insight("Layoff Trend", 0, "Decreasing", 0) >>
               ELSE IF AboveBand(latest_layoff_growth)
               THEN << Insight("Layoff Trend", 0, "Increasing", 0) >>
               ELSE << >> )
             \o
             ( IF AboveBand(latest_hiring_growth)
               THEN << Insight("Hiring Trend", 0, "Strong", 0) >>
               ELSE IF BelowBand(latest_hiring_growth)
               THEN << Insight("Hiring Trend", 0, "Declining", 0) >>
               ELSE << >> )
    ELSE << >>

\* `>` in place of `>=`: the rows of the latest year only
RecentDataStrict(fdf) ==
    IF fdf = << >> THEN << >>
    ELSE LET latest == MaxOf({ fdf[i].year : i \in 1..Len(fdf) })
             Recent(r) == r.year > latest - 1
         IN  SelectSeq(fdf, Recent)

\* fused_df[fused_df['year'] >= fused_df['year'].max() - 1]; the maximum of
\* an empty column is NaN and no row compares >= NaN
RecentData(fdf) ==
    IF fdf = << >> THEN << >>
    ELSE LET latest == MaxOf({ fdf[i].year : i \in 1..Len(fdf) })
             Recent(r) == r.year >= latest - 1
         IN  SelectSeq(fdf, Recent)

\* lines 94-100, the industry momentum
MomentumPredictions(fdf, tieOrder) ==
    LET recent_data == RecentData(fdf)
        industry_momentum ==
            SortValuesDescending(
                GroupBySum(recent_data, << "industry" >>, "net_change"), tieOrder)
    IN  IF Len(industry_momentum) > 0
        THEN << Insight("Industry Momentum", 0, industry_momentum[1].key[1], 0) >>
        ELSE << >>

predict_trends(fdf, tieOrder) ==
    LET yearly_layoffs == GroupBySum(fdf, << "year" >>, "layoffs")
        yearly_hires == GroupBySum(fdf, << "year" >>, "hires")
    IN  Returns(TrendPredictions(yearly_layoffs, yearly_hires)
                \o MomentumPredictions(fdf, tieOrder))

(***************************************************************************)
(* Inputs of the insight specification.                                    *)
(***************************************************************************)
InsightEvents ==
    { [company |-> "A", year |-> 2021, month |-> 1, count |-> 1,
       industry |-> "X", location |-> "P"],
      [company |-> "A", year |-> 2022, month |-> 1, count |-> 1,
       industry |-> "X", location |-> "P"],
      [company |-> "B", year |-> 2021, month |-> 2, count |-> 2,
       industry |-> "Y", location |-> "Q"],
      [company |-> "B", year |-> 2022, month |-> 2, count |-> 2,
       industry |-> "Y", location |-> "Q"],
      [company |-> "A", year |-> 2022, month |-> 2, count |-> 2,
       industry |-> "Y", location |-> "P"] }

\* the sidebar with everything selected, with one year, with one industry
InsightSelections ==
    { [companies |-> << {"A", "B"} >>, years |-> << {2021, 2022} >>,
       months |-> << {} >>, industries |-> << {"X", "Y"} >>],
      [companies |-> << {"A", "B"} >>, years |-> << {2022} >>,
       months |-> << {1, 2} >>, industries |-> << {"X", "Y"} >>],
      [companies |-> << {"A", "B"} >>, years |-> << {2021, 2022} >>,
       months |-> << {1, 2} >>, industries |-> << {"X"} >>] }

\* main: insights = generate_ai_insights(filtered_layoffs, filtered_hiring,
\* filtered_fused)
Insights ==
    /\ pc = "filtered"
    /\ \E t \in TieOrders :
          /\ tie' = t
          /\ insights' = generate_ai_insights(filtered_layoffs, filtered_hiring,
                                              filtered_fused, t)
    /\ pc' = "insights"
    /\ UNCHANGED << sourceVars, fused_df, stats, filterVars, refilterVars,
                    predictions >>

InitInsights ==
    /\ layoffs_df = << >>
    /\ hiring_df = << >>
    /\ fused_df = << >>
    /\ stats = NoStats
    /\ selection = NoSelection
    /\ filtered_layoffs = << >>
    /\ filtered_hiring = << >>
    /\ filtered_fused = << >>
    /\ selection2 = NoSelection
    /\ refiltered_df = << >>
    /\ insights = NoInsights
    /\ predictions = NoPredictions
    /\ tie = "stable"
    /\ pc = "load"

NextInsights ==
    \/ AddLayoff(InsightEvents, MaxInsightRows)
    \/ AddHiring(InsightEvents, MaxInsightRows)
    \/ Fuse
    \/ Filter(InsightSelections)
    \/ Insights

SpecInsights == InitInsights /\ [][NextInsights]_vars

(***************************************************************************)
(* Inputs of the prediction specification: years with a gap (2020, 2022)   *)
(* and selections that leave the gap or exclude every row.                 *)
(***************************************************************************)
TrendEvents ==
    { [company |-> "A", year |-> 2020, month |-> 1, count |-> 2,
       industry |-> "X", location |-> "P"],
      [company |-> "B", year |-> 2022, month |-> 2, count |-> 1,
       industry |-> "Y", location |-> "Q"],
      [company |-> "A", year |-> 2022, month |-> 1, count |-> 1,
       industry |-> "X", location |-> "P"],
      [company |-> "B", year |-> 2021, month |-> 2, count |-> 2,
       industry |-> "Y", location |-> "Q"],
      [company |-> "A", year |-> 2021, month |-> 1, count |-> 1,
       industry |-> "X", location |-> "P"] }

\* the sidebar with everything selected, with 2021 deselected, with only 2021
TrendSelections ==
    { [companies |-> << {"A", "B"} >>, years |-> << {2020, 2021, 2022} >>,
       months |-> << {1, 2} >>, industries |-> << {"X", "Y"} >>],
      [companies |-> << {"A", "B"} >>, years |-> << {2020, 2022} >>,
       months |-> << {1, 2} >>, industries |-> << {"X", "Y"} >>],
      [companies |-> << {"A", "B"} >>, years |-> << {2021} >>,
       months |-> << {1, 2} >>, industries |-> << {"X", "Y"} >>] }

\* main: predictions = predict_trends(filtered_fused)
Predict ==
    /\ pc = "filtered"
    /\ \E t \in TieOrders :
          /\ tie' = t
          /\ predictions' = predict_trends(filtered_fused, t)
    /\ pc' = "predicted"
    /\ UNCHANGED << sourceVars, fused_df, stats, filterVars, refilterVars, insights >>

NextPredict ==
    \/ AddLayoff(TrendEvents, MaxTrendRows)
    \/ AddHiring(TrendEvents, MaxTrendRows)
    \/ Fuse
    \/ Stats
    \/ Filter(TrendSelections)
    \/ Insights
    \/ Predict

SpecPredict == Init /\ [][NextPredict]_vars

(***************************************************************************)
(* Inputs of the commutation specification: both tables hold rows, a key   *)
(* may carry industry X on one side and Y on the other, and the sidebar    *)
(* restricts companies, years and months.                                  *)
(***************************************************************************)
CommuteEvents ==
    { [company |-> c, year |-> ym[1], month |-> ym[2], count |-> a[1],
       industry |-> a[2], location |-> a[3]] :
        c \in {"A", "B"}, ym \in { <<2021, 12>>, <<2022, 1>> },
        a \in { <<1, "X", "P">>, <<2, "Y", "Q">> } }

CommuteSelections ==
    { [companies |-> << {"A"} >>, years |-> << {2021, 2022} >>,
       months |-> << {1, 12} >>, industries |-> None],
      [companies |-> << {"A", "B"} >>, years |-> << {2022} >>,
       months |-> << {1, 12} >>, industries |-> << {} >>],
      [companies |-> << {"A", "B"} >>, years |-> << {2021, 2022} >>,
       months |-> << {12} >>, industries |-> None],
      [companies |-> << {"B"} >>, years |-> << {2021} >>,
       months |-> << {1} >>, industries |-> None],
      [companies |-> << {"A", "B"} >>, years |-> << {2021, 2022} >>,
       months |-> << {1, 12} >>, industries |-> << {"Y"} >>] }

NextCommute ==
    \/ AddLayoff(CommuteEvents, MaxCommuteRows)
    \/ AddHiring(CommuteEvents, MaxCommuteRows)
    \/ Fuse
    \/ Filter(CommuteSelections)

SpecCommute == Init /\ [][NextCommute]_vars

(***************************************************************************)
(* Properties of fuse_employment_data.                                     *)
(***************************************************************************)
RECURSIVE SumOver(_, _)
SumOver(f, idx) ==
    IF idx = {} THEN 0
    ELSE LET i == CHOOSE j \in idx : TRUE IN f[i] + SumOver(f, idx \ {i})

\* the summed layoffs of the reduction rows with key k
SourceLayoffs(k) ==
    SumOver([ i \in 1..Len(layoffs_df) |-> layoffs_df[i].layoffs ],
            { i \in 1..Len(layoffs_df) : KeyOf(layoffs_df[i]) = k })

\* the summed hires of the hiring rows with key k
SourceHires(k) ==
    SumOver([ i \in 1..Len(hiring_df) |-> hiring_df[i].hires ],
            { i \in 1..Len(hiring_df) : KeyOf(hiring_df[i]) = k })

\* the first row of df, in row order, whose key is k
FirstSeen(df, k) ==
    LET first == CHOOSE i \in 1..Len(df) :
                    /\ KeyOf(df[i]) = k
                    /\ \A j \in 1..(i - 1) : KeyOf(df[j]) # k
    IN  df[first]

\* C1: the keys of the fused table are exactly the union of the keys of the
\* reduction table and of the hiring table, and no key occurs in two fused rows.
C1_KeyUnion ==
    pc = "fused" =>
        /\ KeysOf(fused_df) = KeysOf(layoffs_df) \cup KeysOf(hiring_df)
        /\ \A i, j \in 1..Len(fused_df) :
              KeyOf(fused_df[i]) = KeyOf(fused_df[j]) => i = j

C1_Witness ==
    /\ pc = "fused"
    /\ Len(layoffs_df) > Cardinality(KeysOf(layoffs_df))
    /\ KeysOf(hiring_df) \ KeysOf(layoffs_df) # {}
    /\ KeysOf(layoffs_df) \ KeysOf(hiring_df) # {}

\* C2: in every fused row net_change is hires minus layoffs and
\* employment_ratio is hires / (layoffs + 1), hires and layoffs being the
\* sums of the source counts of the row's key.
C2_Derived ==
    pc = "fused" =>
        \A i \in 1..Len(fused_df) :
            LET r == fused_df[i]
                l == SourceLayoffs(KeyOf(r))
                h == SourceHires(KeyOf(r))
            IN  /\ r.net_change = h - l
                /\ r.employment_ratio.den # 0
                /\ r.employment_ratio.num * (l + 1) = h * r.employment_ratio.den

C2_Witness ==
    /\ pc = "fused"
    /\ \E i \in 1..Len(fused_df) :
          /\ fused_df[i].layoffs = 2
          /\ fused_df[i].hires = 1
          /\ fused_df[i].net_change = -1
          /\ Len(GroupRows(layoffs_df, KeyOf(fused_df[i]))) = 2

\* C3: a key only in the hiring table has layoffs 0 and the summed hires, a
\* key only in the reduction table has hires 0 and the summed layoffs; with
\* one table empty the fused table has one zero-filled row per key of the other.
C3_ZeroFill ==
    pc = "fused" =>
        /\ \A i \in 1..Len(fused_df) :
              LET r == fused_df[i] IN
              /\ KeyOf(r) \notin KeysOf(layoffs_df) =>
                    r.layoffs = 0 /\ r.hires = SourceHires(KeyOf(r))
              /\ KeyOf(r) \notin KeysOf(hiring_df) =>
                    r.hires = 0 /\ r.layoffs = SourceLayoffs(KeyOf(r))
        /\ layoffs_df = << >> =>
              /\ Len(fused_df) = Cardinality(KeysOf(hiring_df))
              /\ KeysOf(fused_df) = KeysOf(hiring_df)
        /\ hiring_df = << >> =>
              /\ Len(fused_df) = Cardinality(KeysOf(layoffs_df))
              /\ KeysOf(fused_df) = KeysOf(layoffs_df)

C3_Witness ==
    /\ pc = "fused"
    /\ layoffs_df = << >>
    /\ Len(hiring_df) = 3
    /\ Cardinality(KeysOf(hiring_df)) = 2
    /\ \E i \in 1..Len(fused_df) : fused_df[i].layoffs = 0 /\ fused_df[i].hires = 3

\* C4: the industry and the location of a fused row are those of the first
\* reduction row of its key when the reduction table has the key, else those
\* of the first hiring row of its key; neither is ever absent.
C4_Resolution ==
    pc = "fused" =>
        \A i \in 1..Len(fused_df) :
            LET r == fused_df[i]
                src == IF KeyOf(r) \in KeysOf(layoffs_df)
                       THEN FirstSeen(layoffs_df, KeyOf(r))
                       ELSE FirstSeen(hiring_df, KeyOf(r))
            IN  /\ ~IsNaN(r.industry)
                /\ ~IsNaN(r.location)
                /\ r.industry = src.industry
                /\ r.location = src.location

C4_Witness ==
    /\ pc = "fused"
    /\ \E i \in 1..Len(fused_df) :
          LET k == KeyOf(fused_df[i])
              g == GroupRows(layoffs_df, k)
          IN  /\ Len(g) = 2
              /\ g[1].industry # g[2].industry
              /\ k \in KeysOf(hiring_df)
              /\ FirstSeen(hiring_df, k).industry # g[1].industry
              /\ fused_df[i].industry = g[1].industry

(***************************************************************************)
(* Properties of filter_data.                                              *)
(***************************************************************************)
\* an absent or empty argument
Unconstrained(arg) == arg = << >> \/ arg = << {} >>

\* the row matches every supplied dimension of the selection
MatchesAll(r, sel) ==
    /\ Unconstrained(sel.companies) \/ r.company \in sel.companies[1]
    /\ Unconstrained(sel.years) \/ r.year \in sel.years[1]
    /\ Unconstrained(sel.months) \/ r.month \in sel.months[1]
    /\ Unconstrained(sel.industries) \/ r.industry[1] \in sel.industries[1]

KeptRows(df, sel) ==
    LET Keep(r) == MatchesAll(r, sel) IN SelectSeq(df, Keep)

\* C5: filter_data keeps exactly the rows that match every supplied dimension,
\* in their order; with every dimension absent or empty it returns the rows of
\* its input.
C5_Conjunction ==
    pc = "filtered" =>
        /\ filtered_layoffs = KeptRows(layoffs_df, selection)
        /\ filtered_fused = KeptRows(fused_df, selection)
        /\ (\A d \in Dimensions : Unconstrained(selection[d])) =>
              filtered_layoffs = layoffs_df /\ filtered_fused = fused_df

C5_Witness ==
    /\ pc = "filtered"
    /\ selection.companies = << {"A"} >>
    /\ selection.years = << {} >>
    /\ selection.months = << >>
    /\ selection.industries = << {"X"} >>
    /\ Len(layoffs_df) = 2
    /\ Len(filtered_layoffs) = 1

\* C6 as stated: filtering again under a selection that is a superset of the
\* first on every dimension returns the rows of the first filtering.
C6_Original ==
    ( /\ pc = "refiltered"
      /\ \A d \in Dimensions : Listed(selection[d]) \subseteq Listed(selection2[d]) )
        => refiltered_df = filtered_layoffs

\* C6 amended: filtering again under a superset selection that constrains no
\* dimension the first selection left unconstrained returns the rows of the
\* first filtering.
C6_Idempotent ==
    ( /\ pc = "refiltered"
      /\ \A d \in Dimensions : Listed(selection[d]) \subseteq Listed(selection2[d])
      /\ \A d \in Dimensions :
            Unconstrained(selection[d]) => Unconstrained(selection2[d]) )
        => refiltered_df = filtered_layoffs

C6_Witness ==
    /\ pc = "refiltered"
    /\ selection.companies = << {"A"} >>
    /\ selection2.companies = << {"A", "B"} >>
    /\ selection.years = << {2022} >>
    /\ selection2.years = << {2021, 2022} >>
    /\ Unconstrained(selection.months) /\ Unconstrained(selection2.months)
    /\ Unconstrained(selection.industries) /\ Unconstrained(selection2.industries)
    /\ Len(layoffs_df) = 2
    /\ Len(filtered_layoffs) = 1
    /\ refiltered_df = filtered_layoffs

(***************************************************************************)
(* Properties of get_summary_statistics.                                   *)
(***************************************************************************)
\* the summed count of company c over the rows of df
CompanyTotal(df, val, c) ==
    SumOver([ i \in 1..Len(df) |-> df[i][val] ],
            { i \in 1..Len(df) : df[i].company = c })

CompaniesOf(df) == { df[i].company : i \in 1..Len(df) }

Returned(ranking) == { ranking[i].key[1] : i \in 1..Len(ranking) }

\* a ranking of df's companies: at most TopN entries, each with its company's
\* total, none smaller than the total of a company left out
IsTopRanking(ranking, df, val) ==
    /\ Len(ranking) <= TopN
    /\ Cardinality(Returned(ranking)) = Len(ranking)
    /\ Returned(ranking) \subseteq CompaniesOf(df)
    /\ \A i \in 1..Len(ranking) :
          /\ ranking[i].val = CompanyTotal(df, val, ranking[i].key[1])
          /\ \A c \in CompaniesOf(df) \ Returned(ranking) :
                ranking[i].val >= CompanyTotal(df, val, c)

\* C7: top_layoff_companies and top_hiring_companies hold at most 10
\* companies, and every company returned has a summed count at least that of
\* every company not returned.
C7_TopN ==
    pc = "stats" =>
        /\ IsTopRanking(stats.top_layoff_companies, layoffs_df, "layoffs")
        /\ IsTopRanking(stats.top_hiring_companies, hiring_df, "hires")

C7_Witness ==
    /\ pc = "stats"
    /\ Cardinality(CompaniesOf(layoffs_df)) > TopN
    /\ Len(stats.top_layoff_companies) = TopN
    /\ \E c \in CompaniesOf(layoffs_df) \ Returned(stats.top_layoff_companies) :
          /\ CompanyTotal(layoffs_df, "layoffs", c) = 1
          /\ stats.top_layoff_companies[1].val = 3
          /\ stats.top_layoff_companies[2].val = 2
          /\ stats.top_layoff_companies[TopN].val = 1

(***************************************************************************)
(* Properties of generate_ai_insights.  Its inputs are the filtered        *)
(* tables.                                                                 *)
(***************************************************************************)
YearsOf(df) == { df[i].year : i \in 1..Len(df) }

\* the summed count of the rows of df of year y
YearTotal(df, val, y) ==
    SumOver([ i \in 1..Len(df) |-> df[i][val] ],
            { i \in 1..Len(df) : df[i].year = y })

\* the most recent year of the hiring data
RecentYear == CHOOSE y \in YearsOf(filtered_hiring) :
                 \A z \in YearsOf(filtered_hiring) : z <= y

\* hires minus layoffs of the most recent year
RecentNet ==
    YearTotal(filtered_hiring, "hires", RecentYear)
        - YearTotal(filtered_layoffs, "layoffs", RecentYear)

HasInsight(rule) ==
    \E i \in 1..Len(insights.insights) : insights.insights[i].rule = rule

\* C8: when the most recent hiring year has reduction rows, the recovery rule
\* writes the positive message if that year's hires minus layoffs is at
\* least 0 and the negative message only if it is below 0.
C8_RecoverySign ==
    ( /\ pc = "insights"
      /\ ~insights.raised
      /\ filtered_hiring # << >>
      /\ RecentYear \in YearsOf(filtered_layoffs) )
        => /\ RecentNet >= 0 =>
                 HasInsight("Recovery Signal") /\ ~HasInsight("Continued Challenges")
           /\ RecentNet < 0 =>
                 HasInsight("Continued Challenges") /\ ~HasInsight("Recovery Signal")

\* C9: when the reduction data has rows but none of the most recent hiring
\* year, generate_ai_insights does not raise and writes a recovery message
\* for that year computed as its hires minus 0.
C9_MissingYearZero ==
    ( /\ pc = "insights"
      /\ filtered_hiring # << >>
      /\ filtered_layoffs # << >>
      /\ RecentYear \notin YearsOf(filtered_layoffs) )
        => /\ ~insights.raised
           /\ \E i \in 1..Len(insights.insights) :
                 /\ insights.insights[i].rule
                       \in {"Recovery Signal", "Continued Challenges"}
                 /\ insights.insights[i].year = RecentYear
                 /\ insights.insights[i].amount
                       = YearTotal(filtered_hiring, "hires", RecentYear)

\* n^2 * (n - 1) times the sample variance of the yearly totals of df, and
\* that factor
Spread(df, val) ==
    LET ys == YearsOf(df)
        n == Cardinality(ys)
        total == SumOver([ i \in 1..Len(df) |-> df[i][val] ], 1..Len(df))
        dev == [ y \in ys |-> (n * YearTotal(df, val, y) - total)
                                * (n * YearTotal(df, val, y) - total) ]
    IN  [num |-> SumOver(dev, ys), den |-> n * n * (n - 1)]

LayoffsMoreVolatile ==
    Spread(filtered_layoffs, "layoffs").num * Spread(filtered_hiring, "hires").den
        > Spread(filtered_hiring, "hires").num * Spread(filtered_layoffs, "layoffs").den

FewYears ==
    \/ Cardinality(YearsOf(filtered_layoffs)) < 2
    \/ Cardinality(YearsOf(filtered_hiring)) < 2

\* C10: with two or more years on both sides the volatility rule writes the
\* 'layoffs more volatile' message exactly when the standard deviation of the
\* yearly layoffs exceeds that of the yearly hires and the 'hiring more
\* volatile' message otherwise; with fewer than two years on a side it writes
\* neither.
C10_VolatilitySkipped ==
    ( pc = "insights" /\ ~insights.raised )
        => /\ ~FewYears =>
                 /\ HasInsight("Market Volatility") <=> LayoffsMoreVolatile
                 /\ HasInsight("Market Stability") <=> ~LayoffsMoreVolatile
           /\ FewYears =>
                 ~HasInsight("Market Volatility") /\ ~HasInsight("Market Stability")

(***************************************************************************)
(* Properties of the core on tables without rows, and of predict_trends.   *)
(***************************************************************************)
\* C11: with zero rows in the reduction table, the hiring table or both,
\* fuse_employment_data, get_summary_statistics, generate_ai_insights and
\* predict_trends complete without raising; both tables empty fuse to an
\* empty table, and the totals of an empty table are 0.
C11_ZeroRowsNoError ==
    /\ ( pc = "fused" /\ layoffs_df = << >> /\ hiring_df = << >> )
          => fused_df = << >>
    /\ ( pc = "stats" /\ layoffs_df = << >> )
          => stats.total_layoffs = 0 /\ stats.top_layoff_companies = << >>
    /\ ( pc = "stats" /\ hiring_df = << >> )
          => stats.total_hires = 0 /\ stats.top_hiring_companies = << >>
    /\ ( pc = "insights" /\ (filtered_layoffs = << >> \/ filtered_hiring = << >>) )
          => ~insights.raised
    /\ ( pc = "predicted" /\ (filtered_layoffs = << >> \/ filtered_hiring = << >>) )
          => ~predictions.raised

\* the largest and the second largest year of the rows of df
TwoRecentYears(df) ==
    { y \in YearsOf(df) : Cardinality({ z \in YearsOf(df) : z > y }) < 2 }

\* the summed net_change of industry x over the rows of df of the years ys
IndustryNet(df, ys, x) ==
    SumOver([ i \in 1..Len(df) |-> df[i].net_change ],
            { i \in 1..Len(df) : df[i].year \in ys /\ df[i].industry = << x >> })

IndustriesIn(df, ys) ==
    { df[i].industry[1] : i \in { j \in 1..Len(df) : df[j].year \in ys } }

\* the predictions of the momentum rule
Momentum ==
    { i \in 1..Len(predictions.insights) :
        predictions.insights[i].rule = "Industry Momentum" }

\* the momentum rule, over the rows of the years ys, reports an industry of
\* the highest summed net_change, and reports one exactly when the rows of
\* those years hold an industry
MomentumOver(ys) ==
    /\ Momentum # {} <=> IndustriesIn(filtered_fused, ys) # {}
    /\ \A i \in Momentum :
          /\ predictions.insights[i].name \in IndustriesIn(filtered_fused, ys)
          /\ \A x \in IndustriesIn(filtered_fused, ys) :
                IndustryNet(filtered_fused, ys, predictions.insights[i].name)
                    >= IndustryNet(filtered_fused, ys, x)

\* C12 as stated: the industry-momentum rule of predict_trends considers the
\* rows of the largest and the second largest year present in the fused
\* table, also when the two are not consecutive, reports the industry of the
\* highest summed net_change over them, and reports one if and only if those
\* rows hold an industry.
C12_TwoRecentYears ==
    pc = "predicted" => MomentumOver(TwoRecentYears(filtered_fused))

\* the largest year of the rows of df and the year before it, when present
LatestAndPrevious(df) ==
    { y \in YearsOf(df) : \A z \in YearsOf(df) : y >= z - 1 }

\* C12 amended: the industry-momentum rule of predict_trends considers the
\* rows of the largest year present and of the calendar year before it,
\* reports the industry of the highest summed net_change over them, and
\* reports one if and only if those rows hold an industry.
C12_CalendarWindow ==
    pc = "predicted" => MomentumOver(LatestAndPrevious(filtered_fused))

C12_Witness ==
    /\ pc = "predicted"
    /\ YearsOf(filtered_fused) = {2020, 2022}
    /\ \E i \in Momentum :
          /\ predictions.insights[i].name = "Y"
          /\ IndustryNet(filtered_fused, {2020, 2022}, "X")
                > IndustryNet(filtered_fused, {2020, 2022}, "Y")

(***************************************************************************)
(* Totals across fusion and filtering.                                     *)
(***************************************************************************)
\* the sum of column val over all rows of df
Total(df, val) == SumOver([ i \in 1..Len(df) |-> df[i][val] ], 1..Len(df))

\* C13: the layoffs of the fused rows sum to the layoffs of the reduction
\* rows and the hires of the fused rows to the hires of the hiring rows, and
\* the net_change of the fused rows sums to the net_employment_change of
\* get_summary_statistics.
C13_TotalsConserved ==
    /\ pc # "load" =>
          /\ Total(fused_df, "layoffs") = Total(layoffs_df, "layoffs")
          /\ Total(fused_df, "hires") = Total(hiring_df, "hires")
    /\ pc = "stats" =>
          Total(fused_df, "net_change") = stats.net_employment_change

C13_Witness ==
    /\ pc = "stats"
    /\ Len(layoffs_df) = 2
    /\ Len(hiring_df) = 1
    /\ Len(fused_df) = 1
    /\ fused_df[1].layoffs = 4
    /\ stats.net_employment_change = -2

\* C14: under a selection that lists companies, years and months and leaves
\* industries unconstrained, the filtered fused table has exactly the rows of
\* the fusion of the filtered reduction table and the filtered hiring table,
\* so its totals are those of the filtered source tables.
C14_FilterCommutes ==
    ( /\ pc = "filtered"
      /\ ~Unconstrained(selection.companies)
      /\ ~Unconstrained(selection.years)
      /\ ~Unconstrained(selection.months)
      /\ Unconstrained(selection.industries) )
        => /\ filtered_fused = fuse_employment_data(filtered_layoffs, filtered_hiring)
           /\ Total(filtered_fused, "layoffs") = Total(filtered_layoffs, "layoffs")
           /\ Total(filtered_fused, "hires") = Total(filtered_hiring, "hires")

C14_Witness ==
    /\ pc = "filtered"
    /\ selection.companies = << {"A"} >>
    /\ selection.industries = None
    /\ Len(layoffs_df) = 2
    /\ Len(hiring_df) = 1
    /\ Len(fused_df) = 2
    /\ Len(filtered_fused) = 1
    /\ filtered_fused[1].layoffs > 0
    /\ filtered_fused[1].hires > 0
    /\ filtered_fused[1].industry # filtered_hiring[1].industry

====
